---- MODULE Spec2Model ----
(***************************************************************************)
(* RICE: content-based movie recommender (FastAPI backend).                *)
(*   src/backend/recomendacao.py  indexer, profile builder, ranker         *)
(*   src/backend/main.py          startup and the HTTP handlers            *)
(*                                                                         *)
(* Numbers: numpy floats are modelled as exact rationals num/den (den > 0);*)
(* a vector is a tuple of integers, a profile a tuple of numerators over   *)
(* one denominator. Rounding of floating point is not modelled.            *)
(* An absent value (Python None) is a record whose field def is FALSE.     *)
(***************************************************************************)
EXTENDS Integers, Sequences, FiniteSets, TLC

\* ---------------------------------------------------------------- bounds
\* rows of a catalog (len(df_itens))
NItens == 2
\* rows the rating log may grow to
MaxLinhas == 2

\* FATOR_PONDERACAO = 0.5, as the fraction FATOR_NUM / FATOR_DEN
FATOR_NUM == 1
FATOR_DEN == 2

Usuarios == {1, 2}
\* filme_id of a rating: the catalog's indices and one value off each end
FilmeIds == -1 .. NItens
Notas == {0, 1}
\* rows TfidfVectorizer produces: L2-normalised, non-negative (scaled by 5),
\* or all zero for a text of stop words only
Vetores == { <<0, 0>>, <<5, 0>>, <<4, 3>>, <<0, 5>> }

VARIABLES
    arquivoFilmes,    \* the file at ITENS_PATH
    avaliacoes,       \* the file at AVALIACOES_PATH: a sequence of rows (the file exists)
    desempate,        \* order argsort leaves equal scores in (fixed by the numpy build)
    df_filmes,        \* recomendacao.py globals
    tfidf_matrix,
    vectorizer,
    CATALOGO_FILMES,  \* main.py globals
    MATRIZ_VETORES,
    LISTA_USUARIOS,
    pcInicio,         \* position of the process in startup_event
    retorno,          \* df, matriz of startup_event (line 48)
    rec,              \* the POST /recomendar request in flight
    aval,             \* the POST /avaliacoes request in flight
    outra,            \* a second POST /recomendar request, on another worker thread
    metricas          \* what the last call of evaluate returned

vars == << arquivoFilmes, avaliacoes, desempate, df_filmes, tfidf_matrix, vectorizer,
           CATALOGO_FILMES, MATRIZ_VETORES, LISTA_USUARIOS, pcInicio, retorno, rec, aval,
           outra, metricas >>

\* ---------------------------------------------------------------- values
NoneDf == [def |-> FALSE, id |-> 0, len |-> 0]
NoneMatriz == [def |-> FALSE, id |-> 0, vet |-> << >>]
NonePerfil == [def |-> FALSE, num |-> << >>, den |-> 1]

Min(a, b) == IF a <= b THEN a ELSE b

\* a / b <= c / d and a / b = c / d for scores [num, den], den > 0
RatLeq(x, y) == x.num * y.den <= y.num * x.den
RatEq(x, y) == x.num * y.den = y.num * x.den
RatLt(x, y) == x.num * y.den < y.num * x.den

\* ------------------------------------------------------- recomendacao.py
\* tfidf_matriz[idx]: row idx of the matrix; a negative idx counts from the end
Linha(tfidf_matriz, idx) ==
    IF idx < 0 THEN tfidf_matriz.vet[Len(tfidf_matriz.vet) + idx + 1]
    ELSE tfidf_matriz.vet[idx + 1]

VSoma(a, b) == [k \in 1 .. Len(a) |-> a[k] + b[k]]

RECURSIVE Escalar(_, _)
\* dot product of two vectors of one length
Escalar(a, b) ==
    IF Len(a) = 0 THEN 0 ELSE a[1] * b[1] + Escalar(Tail(a), Tail(b))

RECURSIVE SomaLinhas(_, _)
\* column-wise sum of tfidf_matriz[indices] (indices not empty, repeats counted)
SomaLinhas(tfidf_matriz, indices) ==
    IF Len(indices) = 1 THEN Linha(tfidf_matriz, indices[1])
    ELSE VSoma(Linha(tfidf_matriz, indices[1]), SomaLinhas(tfidf_matriz, Tail(indices)))

\* the outcome "an exception was raised" of a function returning a vector or None
Levanta == [def |-> FALSE, num |-> << >>, den |-> 0]

\* the range check without its lower end
IndiceValido_SemMinimo(idx, df_itens) == idx < df_itens.len

\* 0 <= idx < len(df_itens)
IndiceValido(idx, df_itens) == 0 <= idx /\ idx < df_itens.len

\* the filter on the user alone
AvaliacoesAlvo_SemNota(usuario_id, df_avaliacoes, avaliacao_alvo) ==
    SelectSeq(df_avaliacoes, LAMBDA r : r.usuario_id = usuario_id)

\* the filter with >= for ==
AvaliacoesAlvo_NotaMinima(usuario_id, df_avaliacoes, avaliacao_alvo) ==
    SelectSeq(df_avaliacoes,
              LAMBDA r : r.usuario_id = usuario_id /\ r.avaliacao >= avaliacao_alvo)

\* the rows of one user carrying one rating value
AvaliacoesAlvo(usuario_id, df_avaliacoes, avaliacao_alvo) ==
    SelectSeq(df_avaliacoes,
              LAMBDA r : r.usuario_id = usuario_id /\ r.avaliacao = avaliacao_alvo)

\* _obter_vetores_por_avaliacao: the mean vector, None, or an exception
\* (len(None) and None[...] raise TypeError)
ObterVetoresPorAvaliacao(usuario_id, df_avaliacoes, df_itens, tfidf_matriz, avaliacao_alvo) ==
    LET avaliacoes_alvo == AvaliacoesAlvo(usuario_id, df_avaliacoes, avaliacao_alvo)
        indices_preferidos == [k \in 1 .. Len(avaliacoes_alvo) |-> avaliacoes_alvo[k].filme_id]
        indices_validos == SelectSeq(indices_preferidos, LAMBDA idx : IndiceValido(idx, df_itens))
    IN  IF Len(avaliacoes_alvo) = 0 THEN NonePerfil
        ELSE IF ~df_itens.def THEN Levanta
        ELSE IF Len(indices_validos) = 0 THEN NonePerfil
        ELSE IF ~tfidf_matriz.def THEN Levanta
        ELSE [def |-> TRUE,
              num |-> SomaLinhas(tfidf_matriz, indices_validos),
              den |-> Len(indices_validos)]

\* perfil_positivo - perfil_negativo: the weight left out
PerfilPonderado_SemFator(perfil_positivo, perfil_negativo) ==
    [def |-> TRUE,
     num |-> [k \in 1 .. Len(perfil_positivo.num) |->
                 perfil_negativo.den * perfil_positivo.num[k]
                 - perfil_positivo.den * perfil_negativo.num[k]],
     den |-> perfil_positivo.den * perfil_negativo.den]

\* perfil_positivo + FATOR_PONDERACAO * perfil_negativo: the sign turned
PerfilPonderado_Soma(perfil_positivo, perfil_negativo) ==
    [def |-> TRUE,
     num |-> [k \in 1 .. Len(perfil_positivo.num) |->
                 perfil_negativo.den * FATOR_DEN * perfil_positivo.num[k]
                 + FATOR_NUM * perfil_positivo.den * perfil_negativo.num[k]],
     den |-> perfil_positivo.den * perfil_negativo.den * FATOR_DEN]

\* perfil_positivo - FATOR_PONDERACAO * perfil_negativo
PerfilPonderado(perfil_positivo, perfil_negativo) ==
    [def |-> TRUE,
     num |-> [k \in 1 .. Len(perfil_positivo.num) |->
                 perfil_negativo.den * FATOR_DEN * perfil_positivo.num[k]
                 - FATOR_NUM * perfil_positivo.den * perfil_negativo.num[k]],
     den |-> perfil_positivo.den * perfil_negativo.den * FATOR_DEN]

\* construir_perfil_usuario after the read of the rating file (lines 136-169)
PerfilDe(usuario_id, df_avaliacoes, df_itens, tfidf_matriz) ==
    LET perfil_positivo ==
            ObterVetoresPorAvaliacao(usuario_id, df_avaliacoes, df_itens, tfidf_matriz, 1)
        perfil_negativo ==
            ObterVetoresPorAvaliacao(usuario_id, df_avaliacoes, df_itens, tfidf_matriz, 0)
    IN  IF perfil_positivo = Levanta THEN NonePerfil
        ELSE IF ~perfil_positivo.def THEN NonePerfil
        ELSE IF perfil_negativo = Levanta THEN NonePerfil
        ELSE IF perfil_negativo.def THEN PerfilPonderado(perfil_positivo, perfil_negativo)
        ELSE perfil_positivo

\* a read kept from before the last row was appended
LerAvaliacoes_Antigo ==
    IF Len(avaliacoes) = 0 THEN avaliacoes ELSE SubSeq(avaliacoes, 1, Len(avaliacoes) - 1)

\* pd.read_csv(AVALIACOES_PATH): the rating file as it is at the call
LerAvaliacoes == avaliacoes

\* construir_perfil_usuario
ConstruirPerfilUsuario(usuario_id, df_itens, tfidf_matriz) ==
    PerfilDe(usuario_id, LerAvaliacoes, df_itens, tfidf_matriz)

\* linear_kernel(perfil_usuario, tfidf_matriz).flatten(): score of item i at i + 1
Scores(perfil_usuario, tfidf_matriz) ==
    [k \in 1 .. Len(tfidf_matriz.vet) |->
        [num |-> Escalar(perfil_usuario.num, tfidf_matriz.vet[k]), den |-> perfil_usuario.den]]

\* position of item i in the order the sort leaves equal keys in
Posicao(ordem, i) == CHOOSE k \in 1 .. Len(ordem) : ordem[k] = i

\* item i comes before item j in scores.argsort()
Antes(scores, ordem, i, j) ==
    \/ RatLt(scores[i + 1], scores[j + 1])
    \/ RatEq(scores[i + 1], scores[j + 1]) /\ Posicao(ordem, i) < Posicao(ordem, j)

\* scores.argsort(): the items by ascending score
Argsort(scores, ordem) ==
    LET itens == 0 .. Len(scores) - 1
    IN  [k \in 1 .. Len(scores) |->
            CHOOSE i \in itens :
                Cardinality({j \in itens : Antes(scores, ordem, j, i)}) = k - 1]

\* s[::-1]
Inverter(s) == [k \in 1 .. Len(s) |-> s[Len(s) + 1 - k]]

\* df_itens.iloc[i]['Series_Title']: titles are unique, a row's title is named by its position
Titulo(df_itens, i) == i

RECURSIVE Percorrer(_, _, _, _, _)
\* the loop of lines 214-223 over the items still to visit
Percorrer(indices, recomendacoes, scores, df_itens, num_recomendacoes) ==
    IF Len(indices) = 0 THEN recomendacoes
    ELSE IF Len(recomendacoes) >= num_recomendacoes THEN recomendacoes
    ELSE Percorrer(Tail(indices),
                   Append(recomendacoes,
                          [titulo |-> Titulo(df_itens, indices[1]),
                           score |-> scores[indices[1] + 1]]),
                   scores, df_itens, num_recomendacoes)

\* the sort without the reversal: ascending scores
IndicesOrdenados_Crescente(scores) == Argsort(scores, desempate)

\* a sort whose order of equal scores changes from the first call to the next
IndicesOrdenados_Instavel(scores) ==
    Inverter(Argsort(scores, IF rec.pc = "respondido" \/ outra.pc = "respondido"
                             THEN Inverter(desempate) ELSE desempate))

\* indices_ordenados = scores.argsort()[::-1]
IndicesOrdenados(scores) == Inverter(Argsort(scores, desempate))

\* gerar_recomendacoes (df_itens and tfidf_matriz not None)
GerarRecomendacoes(perfil_usuario, df_itens, tfidf_matriz, num_recomendacoes) ==
    IF ~perfil_usuario.def THEN << >>
    ELSE LET scores == Scores(perfil_usuario, tfidf_matriz)
         IN  Percorrer(IndicesOrdenados(scores), << >>, scores, df_itens, num_recomendacoes)

\* ------------------------------------------------------------ the files
\* a catalog file that cannot be indexed: missing, unparseable (or zero bytes), header only
ArquivosRuins ==
    { [tipo |-> t, id |-> 0, vet |-> << >>] : t \in {"ausente", "ilegivel", "cabecalho"} }

\* two catalogs of NItens rows, named by id, with the rows TF-IDF gives them;
\* the first repeats a text (equal rows), the second has a text of stop words only
ArquivosBons ==
    { [tipo |-> "ok", id |-> 1,
       vet |-> [i \in 1 .. NItens |-> IF i % 2 = 1 THEN <<4, 3>> ELSE <<5, 0>>]],
      [tipo |-> "ok", id |-> 2,
       vet |-> [i \in 1 .. NItens |-> IF i = 1 THEN <<0, 5>> ELSE IF i = 2 THEN <<4, 3>>
                                      ELSE <<0, 0>>]] }

\* every matrix a fit over NItens rows can give: each term of the vocabulary
\* (each column) occurs in some row
TodasMatrizes ==
    { m \in [1 .. NItens -> Vetores] : \A c \in 1 .. 2 : \E i \in 1 .. NItens : m[i][c] > 0 }

\* a row of avaliacoes.csv
Linhas == [usuario_id : Usuarios, filme_id : FilmeIds, avaliacao : Notas]

\* salvar_avaliacao writes the rating of a pair over the earlier one, or appends it
SalvarAvaliacao(log, usuario_id, filme_id, avaliacao) ==
    LET nova == [usuario_id |-> usuario_id, filme_id |-> filme_id, avaliacao |-> avaliacao]
        mesma(r) == r.usuario_id = usuario_id /\ r.filme_id = filme_id
    IN  IF \E k \in 1 .. Len(log) : mesma(log[k])
        THEN [k \in 1 .. Len(log) |-> IF mesma(log[k]) THEN nova ELSE log[k]]
        ELSE Append(log, nova)

\* sorted(S) for a set of integers
Ordenar(S) ==
    [k \in 1 .. Cardinality(S) |-> CHOOSE x \in S : Cardinality({y \in S : y < x}) = k - 1]

\* the order a stable argsort leaves equal scores in: by index
OrdemEstavel == [k \in 1 .. NItens |-> k - 1]

\* every order of the items
Ordens == { o \in [1 .. NItens -> 0 .. NItens - 1] : \A a, b \in 1 .. NItens : a # b => o[a] # o[b] }

\* ------------------------------------------------------------- requests
RecOcioso ==
    [pc |-> "ocioso", usuario_id |-> 0, num_rec |-> 0, perfil |-> NonePerfil,
     recomendacoes |-> << >>, status |-> 0]
AvalOcioso == [pc |-> "ocioso", sucesso |-> FALSE, status |-> 0]
\* no Metrics yet
NoneMetricas ==
    [def |-> FALSE, usuario_id |-> 0, recomendados |-> << >>, tp |-> {},
     precisao |-> [num |-> 0, den |-> 1], recall |-> [num |-> 0, den |-> 1],
     f1 |-> [num |-> 0, den |-> 1]]

\* num_recomendacoes handed to gerar_recomendacoes
NumRecs == 0 .. NItens + 1

\* num_recomendacoes of a request to the served application: part of the catalog, or more
\* than it holds
NumRecsPedido == {1, NItens + 1}

\* requests taken as soon as the catalog is assigned
Servindo_DuranteInicio == pcInicio \in {"matriz", "usuarios", "pronto"}

\* requests taken from the start of the process, the load still running
Servindo_DesdeOInicio == pcInicio # "encerrado"

\* uvicorn serves requests once the startup handlers have returned
Servindo == pcInicio = "pronto"

\* hasattr(construir_perfil_usuario, "clear"): a plain function has no such attribute
TemClear == FALSE

\* ------------------------------------------------------------- startup
Init ==
    /\ arquivoFilmes \in ArquivosRuins \cup ArquivosBons
    /\ avaliacoes = << >>
    /\ desempate = OrdemEstavel
    /\ df_filmes = NoneDf
    /\ tfidf_matrix = NoneMatriz
    /\ vectorizer = "None"
    /\ CATALOGO_FILMES = NoneDf
    /\ MATRIZ_VETORES = NoneMatriz
    /\ LISTA_USUARIOS = << >>
    /\ pcInicio = "parado"
    /\ retorno = [df |-> NoneDf, matriz |-> NoneMatriz]
    /\ rec = RecOcioso
    /\ aval = AvalOcioso
    /\ outra = RecOcioso
    /\ metricas = NoneMetricas

\* uvicorn imports main and calls startup_event, which calls carregar_dados_e_vetorizar
Iniciar ==
    /\ pcInicio = "parado"
    /\ pcInicio' = "ler"
    /\ UNCHANGED << arquivoFilmes, avaliacoes, desempate, df_filmes, tfidf_matrix, vectorizer,
                    CATALOGO_FILMES, MATRIZ_VETORES, LISTA_USUARIOS, retorno, rec, aval, outra, metricas >>

\* carregar_dados_e_vetorizar, line 56: df_filmes = pd.read_csv(caminho_csv)
LerCatalogo ==
    /\ pcInicio = "ler"
    /\ IF arquivoFilmes.tipo \in {"ausente", "ilegivel"}
       THEN /\ retorno' = [df |-> NoneDf, matriz |-> NoneMatriz]
            /\ pcInicio' = "retornou"
            /\ UNCHANGED df_filmes
       ELSE /\ df_filmes' = [def |-> TRUE, id |-> arquivoFilmes.id, len |-> Len(arquivoFilmes.vet)]
            /\ pcInicio' = "vetorizar"
            /\ UNCHANGED retorno
    /\ UNCHANGED << arquivoFilmes, avaliacoes, desempate, tfidf_matrix, vectorizer,
                    CATALOGO_FILMES, MATRIZ_VETORES, LISTA_USUARIOS, rec, aval, outra, metricas >>

\* carregar_dados_e_vetorizar, lines 59-78: the content soup, the vectorizer, the fit.
\* A catalog without rows fails at line 59 or at line 67 (empty vocabulary).
Vetorizar ==
    /\ pcInicio = "vetorizar"
    /\ IF df_filmes.len = 0
       THEN /\ vectorizer' \in {vectorizer, "criado"}
            /\ retorno' = [df |-> NoneDf, matriz |-> NoneMatriz]
            /\ UNCHANGED tfidf_matrix
       ELSE /\ vectorizer' = "ajustado"
            /\ tfidf_matrix' = [def |-> TRUE, id |-> df_filmes.id, vet |-> arquivoFilmes.vet]
            /\ retorno' = [df |-> df_filmes, matriz |-> tfidf_matrix']
    /\ pcInicio' = "retornou"
    /\ UNCHANGED << arquivoFilmes, avaliacoes, desempate, df_filmes,
                    CATALOGO_FILMES, MATRIZ_VETORES, LISTA_USUARIOS, rec, aval, outra, metricas >>

\* startup_event, lines 48-52 and 63-65: a failed load ends the process
VerificarCarga ==
    /\ pcInicio = "retornou"
    /\ IF ~retorno.df.def \/ ~retorno.matriz.def
       THEN /\ pcInicio' = "encerrado"
            /\ UNCHANGED CATALOGO_FILMES
       ELSE /\ CATALOGO_FILMES' = retorno.df
            /\ pcInicio' = "matriz"
    /\ UNCHANGED << arquivoFilmes, avaliacoes, desempate, df_filmes, tfidf_matrix, vectorizer,
                    MATRIZ_VETORES, LISTA_USUARIOS, retorno, rec, aval, outra, metricas >>

\* startup_event, line 53
AtribuirMatriz ==
    /\ pcInicio = "matriz"
    /\ MATRIZ_VETORES' = retorno.matriz
    /\ pcInicio' = "usuarios"
    /\ UNCHANGED << arquivoFilmes, avaliacoes, desempate, df_filmes, tfidf_matrix, vectorizer,
                    CATALOGO_FILMES, LISTA_USUARIOS, retorno, rec, aval, outra, metricas >>

\* startup_event, lines 58-61
CarregarUsuarios ==
    /\ pcInicio = "usuarios"
    /\ LISTA_USUARIOS' = Ordenar({avaliacoes[k].usuario_id : k \in 1 .. Len(avaliacoes)})
    /\ pcInicio' = "pronto"
    /\ UNCHANGED << arquivoFilmes, avaliacoes, desempate, df_filmes, tfidf_matrix, vectorizer,
                    CATALOGO_FILMES, MATRIZ_VETORES, retorno, rec, aval, outra, metricas >>

\* ------------------------------------------------------ POST /recomendar
\* recomendar_filmes, lines 115-119
RecReceber(usuario_id, num_rec) ==
    /\ Servindo
    /\ rec.pc = "ocioso"
    /\ IF ~CATALOGO_FILMES.def
       THEN rec' = [RecOcioso EXCEPT !.pc = "respondido", !.usuario_id = usuario_id,
                                     !.num_rec = num_rec, !.status = 503]
       ELSE rec' = [RecOcioso EXCEPT !.pc = "perfil", !.usuario_id = usuario_id,
                                     !.num_rec = num_rec]
    /\ UNCHANGED << arquivoFilmes, avaliacoes, desempate, df_filmes, tfidf_matrix, vectorizer,
                    CATALOGO_FILMES, MATRIZ_VETORES, LISTA_USUARIOS, pcInicio, retorno, aval, outra, metricas >>

\* the sum of the liked rows accumulated in place, in the first of them
RecPerfil_NoLugar ==
    /\ rec.pc = "perfil"
    /\ LET perfil_usuario ==
               ConstruirPerfilUsuario(rec.usuario_id, CATALOGO_FILMES, MATRIZ_VETORES)
           alvo == AvaliacoesAlvo(rec.usuario_id, LerAvaliacoes, 1)
           validos == SelectSeq([k \in 1 .. Len(alvo) |-> alvo[k].filme_id],
                                LAMBDA idx : IndiceValido(idx, CATALOGO_FILMES))
       IN  IF ~perfil_usuario.def
           THEN /\ rec' = [rec EXCEPT !.pc = "respondido", !.status = 404]
                /\ UNCHANGED MATRIZ_VETORES
           ELSE /\ rec' = [rec EXCEPT !.pc = "rank", !.perfil = perfil_usuario]
                /\ MATRIZ_VETORES' =
                       [MATRIZ_VETORES EXCEPT !.vet[validos[1] + 1] =
                                                  SomaLinhas(MATRIZ_VETORES, validos)]
    /\ UNCHANGED << arquivoFilmes, avaliacoes, desempate, df_filmes, tfidf_matrix, vectorizer,
                    CATALOGO_FILMES, LISTA_USUARIOS, pcInicio, retorno, aval, outra, metricas >>

\* recomendar_filmes, lines 122-129
RecPerfil ==
    /\ rec.pc = "perfil"
    /\ LET perfil_usuario ==
               ConstruirPerfilUsuario(rec.usuario_id, CATALOGO_FILMES, MATRIZ_VETORES)
       IN  IF ~perfil_usuario.def
           THEN rec' = [rec EXCEPT !.pc = "respondido", !.status = 404]
           ELSE rec' = [rec EXCEPT !.pc = "rank", !.perfil = perfil_usuario]
    /\ UNCHANGED << arquivoFilmes, avaliacoes, desempate, df_filmes, tfidf_matrix, vectorizer,
                    CATALOGO_FILMES, MATRIZ_VETORES, LISTA_USUARIOS, pcInicio, retorno, aval, outra, metricas >>

\* recomendar_filmes, lines 132-154 (linear_kernel raises on a matrix that is None)
RecGerar ==
    /\ rec.pc = "rank"
    /\ IF ~CATALOGO_FILMES.def \/ ~MATRIZ_VETORES.def
       THEN rec' = [rec EXCEPT !.pc = "respondido", !.status = 500]
       ELSE rec' = [rec EXCEPT !.pc = "respondido", !.status = 200,
                               !.recomendacoes =
                                   GerarRecomendacoes(rec.perfil, CATALOGO_FILMES,
                                                      MATRIZ_VETORES, rec.num_rec)]
    /\ UNCHANGED << arquivoFilmes, avaliacoes, desempate, df_filmes, tfidf_matrix, vectorizer,
                    CATALOGO_FILMES, MATRIZ_VETORES, LISTA_USUARIOS, pcInicio, retorno, aval, outra, metricas >>

\* the response is sent; the worker takes the next request
RecLiberar ==
    /\ rec.pc = "respondido"
    /\ rec' = RecOcioso
    /\ UNCHANGED << arquivoFilmes, avaliacoes, desempate, df_filmes, tfidf_matrix, vectorizer,
                    CATALOGO_FILMES, MATRIZ_VETORES, LISTA_USUARIOS, pcInicio, retorno, aval, outra, metricas >>

\* recomendar_filmes, lines 122-129, run by a second worker thread
OutraPerfil ==
    /\ outra.pc = "perfil"
    /\ LET perfil_usuario ==
               ConstruirPerfilUsuario(outra.usuario_id, CATALOGO_FILMES, MATRIZ_VETORES)
       IN  IF ~perfil_usuario.def
           THEN outra' = [outra EXCEPT !.pc = "respondido", !.status = 404]
           ELSE outra' = [outra EXCEPT !.pc = "rank", !.perfil = perfil_usuario]
    /\ UNCHANGED << arquivoFilmes, avaliacoes, desempate, df_filmes, tfidf_matrix, vectorizer,
                    CATALOGO_FILMES, MATRIZ_VETORES, LISTA_USUARIOS, pcInicio, retorno, rec,
                    aval, metricas >>

\* recomendar_filmes, lines 132-154, run by a second worker thread
OutraGerar ==
    /\ outra.pc = "rank"
    /\ IF ~CATALOGO_FILMES.def \/ ~MATRIZ_VETORES.def
       THEN outra' = [outra EXCEPT !.pc = "respondido", !.status = 500]
       ELSE outra' = [outra EXCEPT !.pc = "respondido", !.status = 200,
                                   !.recomendacoes =
                                       GerarRecomendacoes(outra.perfil, CATALOGO_FILMES,
                                                          MATRIZ_VETORES, outra.num_rec)]
    /\ UNCHANGED << arquivoFilmes, avaliacoes, desempate, df_filmes, tfidf_matrix, vectorizer,
                    CATALOGO_FILMES, MATRIZ_VETORES, LISTA_USUARIOS, pcInicio, retorno, rec,
                    aval, metricas >>

\* ------------------------------------------------------ POST /avaliacoes
\* add_avaliacao, lines 188-192: salvar_avaliacao persists the rating or reports failure
AvalSalvar(usuario_id, filme_id, avaliacao) ==
    /\ Servindo
    /\ aval.pc = "ocioso"
    /\ \/ /\ Len(SalvarAvaliacao(avaliacoes, usuario_id, filme_id, avaliacao)) <= MaxLinhas
          /\ avaliacoes' = SalvarAvaliacao(avaliacoes, usuario_id, filme_id, avaliacao)
          /\ aval' = [pc |-> "salvo", sucesso |-> TRUE, status |-> 0]
       \/ /\ UNCHANGED avaliacoes
          /\ aval' = [pc |-> "salvo", sucesso |-> FALSE, status |-> 0]
    /\ UNCHANGED << arquivoFilmes, desempate, df_filmes, tfidf_matrix, vectorizer,
                    CATALOGO_FILMES, MATRIZ_VETORES, LISTA_USUARIOS, pcInicio, retorno, rec, outra, metricas >>

\* add_avaliacao, lines 194-203: construir_perfil_usuario.clear() raises AttributeError
\* when the function has no clear, and the framework answers 500
AvalResponder ==
    /\ aval.pc = "salvo"
    /\ aval' = [aval EXCEPT !.pc = "respondido",
                            !.status = IF aval.sucesso /\ TemClear THEN 201 ELSE 500]
    /\ UNCHANGED << arquivoFilmes, avaliacoes, desempate, df_filmes, tfidf_matrix, vectorizer,
                    CATALOGO_FILMES, MATRIZ_VETORES, LISTA_USUARIOS, pcInicio, retorno, rec, outra, metricas >>

AvalLiberar ==
    /\ aval.pc = "respondido"
    /\ aval' = AvalOcioso
    /\ UNCHANGED << arquivoFilmes, avaliacoes, desempate, df_filmes, tfidf_matrix, vectorizer,
                    CATALOGO_FILMES, MATRIZ_VETORES, LISTA_USUARIOS, pcInicio, retorno, rec, outra, metricas >>

Next ==
    \/ Iniciar
    \/ LerCatalogo
    \/ Vetorizar
    \/ VerificarCarga
    \/ AtribuirMatriz
    \/ CarregarUsuarios
    \/ \E u \in Usuarios, n \in NumRecsPedido : RecReceber(u, n)
    \/ RecPerfil
    \/ RecGerar
    \/ RecLiberar
    \/ \E u \in Usuarios, f \in FilmeIds, a \in Notas : AvalSalvar(u, f, a)
    \/ AvalResponder
    \/ AvalLiberar

Spec == Init /\ [][Next]_vars

\* ------------------------------------------------- the functions alone
\* rating logs of at most MaxLinhas rows, one row to a (user, item) pair
Logs ==
    { s \in UNION { [1 .. k -> Linhas] : k \in 0 .. MaxLinhas } :
        \A a, b \in 1 .. Len(s) :
            (s[a].usuario_id = s[b].usuario_id /\ s[a].filme_id = s[b].filme_id) => a = b }

\* profile vectors handed to gerar_recomendacoes, and None
Perfis ==
    { [def |-> TRUE, num |-> <<a, b>>, den |-> d] : a \in -2 .. 2, b \in -2 .. 2, d \in {1, 2} }
    \cup {NonePerfil}

\* A process that has indexed some catalog and either is about to build the profile of a
\* user from some rating log, or is about to rank the catalog against some profile
\* under some tie order of the sort (usuario_id 0: no user is involved).
InitCalc ==
    /\ arquivoFilmes \in { [tipo |-> "ok", id |-> 1, vet |-> m] : m \in TodasMatrizes }
    /\ df_filmes = [def |-> TRUE, id |-> 1, len |-> NItens]
    /\ tfidf_matrix = [def |-> TRUE, id |-> 1, vet |-> arquivoFilmes.vet]
    /\ vectorizer = "ajustado"
    /\ CATALOGO_FILMES = df_filmes
    /\ MATRIZ_VETORES = tfidf_matrix
    /\ pcInicio = "pronto"
    /\ retorno = [df |-> df_filmes, matriz |-> tfidf_matrix]
    /\ aval = AvalOcioso
    /\ outra = RecOcioso
    /\ metricas = NoneMetricas
    /\ \/ /\ avaliacoes \in Logs
          /\ desempate = OrdemEstavel
          /\ rec \in { [RecOcioso EXCEPT !.pc = "perfil", !.usuario_id = u, !.num_rec = 1] :
                         u \in Usuarios }
       \/ /\ avaliacoes = << >>
          /\ desempate \in Ordens
          /\ rec \in { [RecOcioso EXCEPT !.pc = "rank", !.num_rec = n, !.perfil = p] :
                         n \in NumRecs, p \in Perfis }
    /\ LISTA_USUARIOS = Ordenar({avaliacoes[k].usuario_id : k \in 1 .. Len(avaliacoes)})

NextCalc ==
    \/ RecPerfil
    \/ RecGerar

SpecCalc == InitCalc /\ [][NextCalc]_vars

\* ---------------------------------------------- two requests at a time
\* FastAPI runs the handlers declared with def on a pool of threads. A process that
\* has indexed some catalog holds two POST /recomendar requests at once: either of
\* two different users, both about to build their profile from some rating log, or
\* two calls of gerar_recomendacoes about to run on one profile and one number.
InitConc ==
    /\ \/ /\ arquivoFilmes \in ArquivosBons
          /\ avaliacoes \in Logs
          /\ desempate = OrdemEstavel
          /\ rec = [RecOcioso EXCEPT !.pc = "perfil", !.usuario_id = 1, !.num_rec = NItens]
          /\ outra = [RecOcioso EXCEPT !.pc = "perfil", !.usuario_id = 2, !.num_rec = NItens]
       \/ /\ arquivoFilmes \in { [tipo |-> "ok", id |-> 1, vet |-> m] : m \in TodasMatrizes }
          /\ avaliacoes = << >>
          /\ desempate \in Ordens
          /\ rec \in { [RecOcioso EXCEPT !.pc = "rank", !.num_rec = n, !.perfil = p] :
                         n \in NumRecs, p \in Perfis }
          /\ outra = rec
    /\ df_filmes = [def |-> TRUE, id |-> arquivoFilmes.id, len |-> NItens]
    /\ tfidf_matrix = [def |-> TRUE, id |-> arquivoFilmes.id, vet |-> arquivoFilmes.vet]
    /\ vectorizer = "ajustado"
    /\ CATALOGO_FILMES = df_filmes
    /\ MATRIZ_VETORES = tfidf_matrix
    /\ pcInicio = "pronto"
    /\ retorno = [df |-> df_filmes, matriz |-> tfidf_matrix]
    /\ aval = AvalOcioso
    /\ metricas = NoneMetricas
    /\ LISTA_USUARIOS = Ordenar({avaliacoes[k].usuario_id : k \in 1 .. Len(avaliacoes)})

NextConc ==
    \/ RecPerfil
    \/ RecGerar
    \/ OutraPerfil
    \/ OutraGerar

SpecConc == InitConc /\ [][NextConc]_vars

\* -------------------------------------------------- the evaluation engine
\* the set of the elements of a sequence
Elementos(s) == { s[k] : k \in 1 .. Len(s) }

\* titles of the catalog items the user has rated with one label, over the full history
TitulosCom(usuario_id, full_rating_history, catalog, label) ==
    { Titulo(catalog, f) : f \in { g \in 0 .. catalog.len - 1 :
        \E k \in 1 .. Len(full_rating_history) :
            full_rating_history[k] = [usuario_id |-> usuario_id, filme_id |-> g, avaliacao |-> label] } }

\* |TP| / |recommended|, 0 if recommended is empty
Precisao(tp, recomendados) ==
    IF recomendados = 0 THEN [num |-> 0, den |-> 1] ELSE [num |-> tp, den |-> recomendados]

\* |TP| / |ground-truth-positive|, 0 if the ground truth is empty
Recall(tp, positivos) ==
    IF positivos = 0 THEN [num |-> 0, den |-> 1] ELSE [num |-> tp, den |-> positivos]

\* the arithmetic mean for the harmonic one
F1_MediaAritmetica(precisao, recall) ==
    [num |-> precisao.num * recall.den + recall.num * precisao.den,
     den |-> 2 * precisao.den * recall.den]

\* 2 p r / (p + r), 0 if both are 0
F1(precisao, recall) ==
    IF precisao.num = 0 /\ recall.num = 0 THEN [num |-> 0, den |-> 1]
    ELSE [num |-> 2 * precisao.num * recall.num,
          den |-> precisao.num * recall.den + recall.num * precisao.den]

\* evaluate(user_id, recommended_titles, full_rating_history, catalog) -> Metrics
Evaluate(usuario_id, recommended_titles, full_rating_history, catalog) ==
    LET positivos == TitulosCom(usuario_id, full_rating_history, catalog, 1)
        tp == Elementos(recommended_titles) \cap positivos
        precisao == Precisao(Cardinality(tp), Len(recommended_titles))
        recall == Recall(Cardinality(tp), Cardinality(positivos))
    IN  [def |-> TRUE, usuario_id |-> usuario_id, recomendados |-> recommended_titles,
         tp |-> tp, precisao |-> precisao, recall |-> recall, f1 |-> F1(precisao, recall)]

\* recommendation lists: titles of the catalog, none twice, in any order
Listas ==
    { l \in UNION { [1 .. k -> 0 .. NItens - 1] : k \in 0 .. NItens } :
        \A a, b \in 1 .. Len(l) : a # b => l[a] # l[b] }

\* one call of evaluate over the rating log and the catalog served
Avaliar(usuario_id, recommended_titles) ==
    /\ Servindo
    /\ metricas' = Evaluate(usuario_id, recommended_titles, LerAvaliacoes, CATALOGO_FILMES)
    /\ UNCHANGED << arquivoFilmes, avaliacoes, desempate, df_filmes, tfidf_matrix, vectorizer,
                    CATALOGO_FILMES, MATRIZ_VETORES, LISTA_USUARIOS, pcInicio, retorno, rec,
                    aval, outra >>

\* a process that has indexed a catalog, with some rating log, about to evaluate
InitAval ==
    /\ arquivoFilmes \in { a \in ArquivosBons : a.id = 1 }
    /\ avaliacoes \in Logs
    /\ desempate = OrdemEstavel
    /\ df_filmes = [def |-> TRUE, id |-> arquivoFilmes.id, len |-> NItens]
    /\ tfidf_matrix = [def |-> TRUE, id |-> arquivoFilmes.id, vet |-> arquivoFilmes.vet]
    /\ vectorizer = "ajustado"
    /\ CATALOGO_FILMES = df_filmes
    /\ MATRIZ_VETORES = tfidf_matrix
    /\ pcInicio = "pronto"
    /\ retorno = [df |-> df_filmes, matriz |-> tfidf_matrix]
    /\ rec = RecOcioso
    /\ aval = AvalOcioso
    /\ outra = RecOcioso
    /\ metricas = NoneMetricas
    /\ LISTA_USUARIOS = Ordenar({avaliacoes[k].usuario_id : k \in 1 .. Len(avaliacoes)})

NextAval == \E u \in Usuarios, l \in Listas : Avaliar(u, l)

SpecAval == InitAval /\ [][NextAval]_vars

\* ---------------------------------------------------------------- claims
\* the request has been answered with a list of recommendations
Respondeu200 == rec.pc = "respondido" /\ rec.status = 200

\* items of the catalog the user has a rating for in the log
Avaliados(usuario_id, log) ==
    { log[k].filme_id : k \in { j \in 1 .. Len(log) : log[j].usuario_id = usuario_id } }
    \cap (0 .. NItens - 1)

\* C1: no item the user has already rated (the exclude set of the request) appears
\* in the list POST /recomendar returns, whatever the number asked for.
C1_ExcluiAvaliados ==
    (Respondeu200 /\ rec.usuario_id \in Usuarios) =>
        \A k \in 1 .. Len(rec.recomendacoes) :
            rec.recomendacoes[k].titulo \notin Avaliados(rec.usuario_id, avaliacoes)

\* C2: of two returned items with equal score, the one with the smaller catalog
\* index comes first.
C2_EmpateIndiceCrescente ==
    Respondeu200 =>
        \A a, b \in 1 .. Len(rec.recomendacoes) :
            (a < b /\ RatEq(rec.recomendacoes[a].score, rec.recomendacoes[b].score))
                => rec.recomendacoes[a].titulo < rec.recomendacoes[b].titulo

\* score of catalog item i against the profile of the request: perfil . vet[i] / den
ScoreItem(i) ==
    [num |-> Escalar(rec.perfil.num, MATRIZ_VETORES.vet[i + 1]), den |-> rec.perfil.den]

\* C3: for a profile that is not None the list holds min(top_n, catalog size) entries
\* (at most top_n, never padded), each a distinct item with its own score, scores
\* non-increasing, and no item left out scores above the last one returned.
C3_TopN ==
    (Respondeu200 /\ rec.perfil.def) =>
        LET r == rec.recomendacoes
        IN  /\ Len(r) <= rec.num_rec
            /\ Len(r) = Min(rec.num_rec, NItens)
            /\ \A k \in 1 .. Len(r) :
                   /\ r[k].titulo \in 0 .. NItens - 1
                   /\ r[k].score = ScoreItem(r[k].titulo)
            /\ \A a, b \in 1 .. Len(r) : a < b =>
                   /\ r[a].titulo # r[b].titulo
                   /\ RatLeq(r[b].score, r[a].score)
            /\ Len(r) > 0 =>
                   \A i \in (0 .. NItens - 1) \ { r[k].titulo : k \in 1 .. Len(r) } :
                       RatLeq(ScoreItem(i), r[Len(r)].score)

\* a list cut short of the catalog was returned, with a tie inside it and an item left out
C3_Witness ==
    /\ Respondeu200 /\ rec.perfil.def
    /\ Len(rec.recomendacoes) = rec.num_rec
    /\ rec.num_rec > 0 /\ rec.num_rec < NItens
    /\ \E i \in 0 .. NItens - 1 : RatLt(ScoreItem(i), rec.recomendacoes[1].score)

\* valid items the user has rated with one value
ItensCom(usuario_id, log, nota) ==
    { f \in 0 .. NItens - 1 :
        \E k \in 1 .. Len(log) :
            log[k] = [usuario_id |-> usuario_id, filme_id |-> f, avaliacao |-> nota] }

RECURSIVE SomaItens(_)
\* sum of the vectors of a set of items of the served matrix
SomaItens(S) ==
    IF S = {} THEN [c \in 1 .. 2 |-> 0]
    ELSE LET f == CHOOSE x \in S : TRUE
         IN  VSoma(MATRIZ_VETORES.vet[f + 1], SomaItens(S \ {f}))

\* a profile has been asked for, for a user, and the builder has returned
PerfilPedido == rec.usuario_id \in Usuarios /\ rec.pc # "perfil"

\* C4: a profile returned by construir_perfil_usuario is the profile of the rating
\* log as it stands at the call, every completed write included: none is built
\* from an older log.
C4_PerfilAtual ==
    [][ (rec.pc = "perfil" /\ rec'.pc # "perfil") =>
            LET p == PerfilDe(rec.usuario_id, avaliacoes, CATALOGO_FILMES, MATRIZ_VETORES)
            IN  IF p.def THEN rec'.pc = "rank" /\ rec'.perfil = p
                ELSE rec'.pc = "respondido" /\ rec'.status = 404 /\ ~rec'.perfil.def ]_vars

\* a second write has completed and the profile built next differs from the one
\* the log before that write gives
C4_Witness ==
    /\ rec.pc = "rank"
    /\ aval.pc = "respondido" /\ aval.sucesso
    /\ Len(avaliacoes) = 2
    /\ rec.perfil = PerfilDe(rec.usuario_id, avaliacoes, CATALOGO_FILMES, MATRIZ_VETORES)
    /\ rec.perfil # PerfilDe(rec.usuario_id, SubSeq(avaliacoes, 1, 1),
                             CATALOGO_FILMES, MATRIZ_VETORES)

\* C5: a user with no rating 1 on a valid item gets no profile (the request ends 404
\* with nothing ranked), negative ratings or not; and gerar_recomendacoes given None
\* returns the empty list and raises nothing.
C5_PerfilAusente ==
    /\ (PerfilPedido /\ ItensCom(rec.usuario_id, avaliacoes, 1) = {}) =>
           /\ rec.pc = "respondido" /\ rec.status = 404
           /\ ~rec.perfil.def
           /\ rec.recomendacoes = << >>
    /\ (rec.pc = "respondido" /\ rec.usuario_id = 0 /\ ~rec.perfil.def) =>
           /\ rec.status = 200
           /\ rec.recomendacoes = << >>

\* no profile for a user whose only rating 1 is out of range and who has a valid rating 0
C5_Witness ==
    /\ PerfilPedido
    /\ rec.status = 404
    /\ ItensCom(rec.usuario_id, avaliacoes, 0) # {}
    /\ \E k \in 1 .. Len(avaliacoes) :
           /\ avaliacoes[k].usuario_id = rec.usuario_id
           /\ avaliacoes[k].avaliacao = 1

\* C6: the profile is the mean of the vectors of the user's valid items rated 1,
\* less one half of the mean of the vectors of the user's valid items rated 0 when
\* there are any; rows of other users do not enter.
C6_PerfilMedia ==
    LET P == ItensCom(rec.usuario_id, avaliacoes, 1)
        N == ItensCom(rec.usuario_id, avaliacoes, 0)
        p == Cardinality(P)
        n == Cardinality(N)
    IN  (PerfilPedido /\ P # {}) =>
            /\ rec.perfil.def
            /\ rec.perfil.den > 0
            /\ \A c \in 1 .. 2 :
                   IF N = {}
                   THEN rec.perfil.num[c] * p = rec.perfil.den * SomaItens(P)[c]
                   ELSE rec.perfil.num[c] * (2 * p * n)
                            = rec.perfil.den * (2 * n * SomaItens(P)[c] - p * SomaItens(N)[c])

\* a profile built from a liked and a disliked item of different vectors
C6_Witness ==
    /\ PerfilPedido /\ rec.pc = "rank"
    /\ ItensCom(rec.usuario_id, avaliacoes, 1) # {}
    /\ ItensCom(rec.usuario_id, avaliacoes, 0) # {}
    /\ SomaItens(ItensCom(rec.usuario_id, avaliacoes, 0)) # <<0, 0>>

\* the log without the rows whose filme_id is outside the catalog
SoValidas(log) == SelectSeq(log, LAMBDA r : 0 <= r.filme_id /\ r.filme_id < NItens)

\* C7: ratings of items outside [0, catalog size) are dropped and raise nothing: the
\* builder returns what it returns for the log without them.
C7_DescartaInvalidos ==
    PerfilPedido =>
        LET esperado == PerfilDe(rec.usuario_id, SoValidas(avaliacoes),
                                 CATALOGO_FILMES, MATRIZ_VETORES)
        IN  /\ rec.status # 500
            /\ rec.perfil = esperado
            /\ esperado.def <=> rec.status # 404

\* a profile built for a user with a rating 1 below the range and one inside it
C7_Witness ==
    /\ PerfilPedido /\ rec.pc = "rank"
    /\ \E k \in 1 .. Len(avaliacoes) :
           /\ avaliacoes[k].usuario_id = rec.usuario_id
           /\ avaliacoes[k].avaliacao = 1
           /\ avaliacoes[k].filme_id < 0
    /\ ItensCom(rec.usuario_id, avaliacoes, 1) # {}

\* C8: the score of an item the user rated 0 is, under the profile built, no higher
\* than under the mean of the user's liked items alone.
C8_Amortecimento ==
    LET P == ItensCom(rec.usuario_id, avaliacoes, 1)
        N == ItensCom(rec.usuario_id, avaliacoes, 0)
    IN  (PerfilPedido /\ rec.perfil.def) =>
            \A f \in N :
                Escalar(rec.perfil.num, MATRIZ_VETORES.vet[f + 1]) * Cardinality(P)
                    <= Escalar(SomaItens(P), MATRIZ_VETORES.vet[f + 1]) * rec.perfil.den

\* a disliked item whose score the negative rating lowered
C8_Witness ==
    LET P == ItensCom(rec.usuario_id, avaliacoes, 1)
        N == ItensCom(rec.usuario_id, avaliacoes, 0)
    IN  /\ PerfilPedido /\ rec.perfil.def
        /\ \E f \in N :
               Escalar(rec.perfil.num, MATRIZ_VETORES.vet[f + 1]) * Cardinality(P)
                   < Escalar(SomaItens(P), MATRIZ_VETORES.vet[f + 1]) * rec.perfil.den

\* C9: a failed carregar_dados_e_vetorizar returns (None, None) and leaves no partial
\* model: of each pair of process-wide variables (df_filmes with tfidf_matrix,
\* CATALOGO_FILMES with MATRIZ_VETORES) both are unset or both hold one build.
C9_SemModeloParcial ==
    (pcInicio \in {"retornou", "encerrado"} /\ ~retorno.df.def) =>
        /\ ~retorno.matriz.def
        /\ df_filmes.def <=> tfidf_matrix.def
        /\ df_filmes.def => df_filmes.id = tfidf_matrix.id
        /\ CATALOGO_FILMES.def <=> MATRIZ_VETORES.def
        /\ CATALOGO_FILMES.def => CATALOGO_FILMES.id = MATRIZ_VETORES.id

\* the catalog and the matrix served are those of one completed build
ParPublicado ==
    /\ CATALOGO_FILMES.def /\ MATRIZ_VETORES.def
    /\ CATALOGO_FILMES.id = MATRIZ_VETORES.id
    /\ CATALOGO_FILMES.len = Len(MATRIZ_VETORES.vet)
    /\ CATALOGO_FILMES = retorno.df /\ MATRIZ_VETORES = retorno.matriz

\* C10: whenever a recommendation request can be taken or is in flight, the catalog
\* and the vector space it reads are the pair of one completed index build.
C10_ParAtomico == (Servindo \/ rec.pc # "ocioso") => ParPublicado

\* a request about to read both globals, after a startup that assigned them one by one
C10_Witness ==
    /\ rec.pc = "perfil"
    /\ ParPublicado
    /\ CATALOGO_FILMES.id = arquivoFilmes.id

\* the process serves the catalog and the matrix of a load that succeeded
IndiceNoLugar == pcInicio = "pronto" /\ ParPublicado

\* C11: while no successfully built index is in place (the load has not finished, or
\* it failed) no recommendation request is in profile building or ranking and none
\* has been answered with a list; a request taken then is answered 503 with nothing
\* computed.
C11_SemIndiceNaoServe ==
    ~IndiceNoLugar =>
        /\ rec.pc \notin {"perfil", "rank"}
        /\ rec.pc = "respondido" =>
               /\ rec.status = 503
               /\ ~rec.perfil.def
               /\ rec.recomendacoes = << >>

\* the load of a catalog without rows has failed and the process has ended with
\* nothing published and no request taken
C11_Witness ==
    /\ pcInicio = "encerrado"
    /\ arquivoFilmes.tipo = "cabecalho"
    /\ df_filmes.def
    /\ ~CATALOGO_FILMES.def /\ ~MATRIZ_VETORES.def
    /\ rec = RecOcioso

\* rows of the log holding the rating of one (user, item) pair
LinhasDoPar(log, usuario_id, filme_id) ==
    { k \in 1 .. Len(log) : log[k].usuario_id = usuario_id /\ log[k].filme_id = filme_id }

\* items whose vectors _obter_vetores_por_avaliacao averages for one rating value
IndicesContados(usuario_id, log, nota) ==
    LET alvo == AvaliacoesAlvo(usuario_id, log, nota)
    IN  { alvo[k].filme_id : k \in { j \in 1 .. Len(alvo) : IndiceValido(alvo[j].filme_id, CATALOGO_FILMES) } }

ComoSozinha(r) ==
    LET p == PerfilDe(r.usuario_id, avaliacoes, retorno.df, retorno.matriz)
    IN  /\ r.pc = "rank" => (p.def /\ r.perfil = p)
        /\ r.pc = "respondido" =>
               IF p.def
               THEN /\ r.status = 200
                    /\ r.perfil = p
                    /\ r.recomendacoes =
                           GerarRecomendacoes(p, retorno.df, retorno.matriz, r.num_rec)
               ELSE /\ r.status = 404
                    /\ r.recomendacoes = << >>

\* C13: a call of construir_perfil_usuario or gerar_recomendacoes leaves the catalog,
\* every row of the matrix and the rating log as they were, and of two requests of
\* different users running at once, however their calls interleave, each gets what
\* it gets running alone.
C13_Puras ==
    /\ [][ UNCHANGED << CATALOGO_FILMES, MATRIZ_VETORES, avaliacoes, df_filmes, tfidf_matrix >> ]_vars
    /\ [](\A r \in {rec, outra} : r.usuario_id \in Usuarios => ComoSozinha(r))

\* one request has its list while the other, of a user with another profile, stands
\* between its two calls
C13_Witness ==
    /\ rec.usuario_id = 1 /\ outra.usuario_id = 2
    /\ rec.pc = "respondido" /\ rec.status = 200 /\ Len(rec.recomendacoes) = NItens
    /\ outra.pc = "rank"
    /\ outra.perfil # rec.perfil

EntreZeroEUm(x) == x.den > 0 /\ 0 <= x.num /\ x.num <= x.den

\* C15: the Metrics of a recommendation list and a rating history have
\* TP = recommended /\ ground-truth-positive, precision = |TP| / |recommended| (0 for an
\* empty list), recall = |TP| / |ground-truth-positive| (0 for an empty ground truth),
\* F1 (p + r) = 2 p r, each of the three between 0 and 1, and F1 = 0 when precision
\* and recall are 0.
C15_Metricas ==
    metricas.def =>
        LET gt == ItensCom(metricas.usuario_id, avaliacoes, 1)
            tp == Elementos(metricas.recomendados) \cap gt
            p == metricas.precisao
            r == metricas.recall
            f == metricas.f1
        IN  /\ metricas.tp = tp
            /\ EntreZeroEUm(p) /\ EntreZeroEUm(r) /\ EntreZeroEUm(f)
            /\ p.num * Len(metricas.recomendados) = Cardinality(tp) * p.den
            /\ Len(metricas.recomendados) = 0 => p.num = 0
            /\ r.num * Cardinality(gt) = Cardinality(tp) * r.den
            /\ gt = {} => r.num = 0
            /\ f.num * (p.num * r.den + r.num * p.den) * p.den * r.den
                   = 2 * p.num * r.num * f.den * p.den * r.den
            /\ (p.num = 0 /\ r.num = 0) => f.num = 0

\* a list of two titles of which the user liked one and only one: precision 1/2,
\* recall 1, F1 2/3
C15_Witness ==
    /\ metricas.def
    /\ Len(metricas.recomendados) = 2
    /\ Cardinality(metricas.tp) = 1
    /\ 2 * metricas.precisao.num = metricas.precisao.den
    /\ metricas.recall.num = metricas.recall.den
    /\ 3 * metricas.f1.num = 2 * metricas.f1.den

\* C16: POST /avaliacoes answers 201 exactly when salvar_avaliacao persisted the
\* rating and 500 exactly when it did not: no request that changed the rating log
\* ends in an error response.
C16_RespostaFiel ==
    aval.pc = "respondido" =>
        /\ aval.sucesso => aval.status = 201
        /\ aval.status = 500 => ~aval.sucesso

====
